---- MODULE Spec2Model ----
(***************************************************************************)
(* A model of route_manager.py: the command-line program that loads the    *)
(* airlines, airports and routes tables, dispatches on the question id,    *)
(* evaluates one of the five pandas pipelines q1..q5 and writes the CSV    *)
(* file and the chart.                                                     *)
(*                                                                         *)
(* Text is modelled as a sequence of code points (Python compares str by   *)
(* code point, and str.strip() is modelled on the space character, 32).    *)
(* A DataFrame is a sequence of records whose fields carry the column      *)
(* names of the source.  A frame that is built row by row is written       *)
(* [i \in 1..n |-> row] \o <<>>: the concatenation makes TLC compute the   *)
(* rows once instead of at every use.                                      *)
(***************************************************************************)
EXTENDS Integers, Sequences, FiniteSets, TLC

VARIABLES question_id, type_graph, disk, loaded, airlines_df, airports_df,
          routes_df, pc, result_df, csv, chart, exit_status

vars == <<question_id, type_graph, disk, loaded, airlines_df, airports_df,
          routes_df, pc, result_df, csv, chart, exit_status>>

(***************************************************************************)
(* Text                                                                    *)
(***************************************************************************)
Min(a, b) == IF a <= b THEN a ELSE b

Reverse(s) == [i \in 1..Len(s) |-> s[Len(s) + 1 - i]]

\* Python's < on str: code point by code point, a proper prefix is smaller.
StrLess(s, t) ==
    \E i \in 1..(Min(Len(s), Len(t)) + 1) :
        /\ \A j \in 1..(i - 1) : s[j] = t[j]
        /\ \/ (i = Len(s) + 1 /\ i <= Len(t))
           \/ (i <= Len(s) /\ i <= Len(t) /\ s[i] < t[i])

\* < on tuples of str of the same length (the order groupby puts keys in).
KeyLess(a, b) ==
    \E i \in 1..Len(a) :
        /\ \A j \in 1..(i - 1) : a[j] = b[j]
        /\ StrLess(a[i], b[i])

\* str.strip(): leading and trailing whitespace removed.
Strip(s) ==
    LET idx == {i \in 1..Len(s) : s[i] # 32}
    IN  IF idx = {} THEN <<>>
        ELSE LET lo == CHOOSE i \in idx : \A j \in idx : i <= j
                 hi == CHOOSE i \in idx : \A j \in idx : i >= j
             IN  SubSeq(s, lo, hi)

\* The literal 'Canada' of the country filters.
Canada == <<67, 97, 110, 97, 100, 97>>

(***************************************************************************)
(* pandas primitives                                                       *)
(***************************************************************************)
\* df.head(n)
Head_n(df, n) == SubSeq(df, 1, Min(n, Len(df)))

\* The sequences of ss one after the other.
RECURSIVE Flatten(_)
Flatten(ss) ==
    IF Len(ss) = 0 THEN <<>>
    ELSE IF Len(ss) = 1 THEN ss[1] \o <<>>
    ELSE LET h == Len(ss) \div 2
         IN  Flatten(SubSeq(ss, 1, h)) \o Flatten(SubSeq(ss, h + 1, Len(ss)))

\* The rows of df in the order of their places: place[i] is where row i goes.
Placed(df, place) ==
    [p \in 1..Len(df) |-> df[CHOOSE i \in 1..Len(df) : place[i] = p]] \o <<>>

\* pd.merge(left, right, left_on, right_on), how='inner': one combined row
\* per pair of rows with equal keys, in the order of the left rows and,
\* for one left row, of the matching right rows.
Merge(left, right, left_on, right_on) ==
    Flatten([i \in 1..Len(left) |->
        LET m == SelectSeq(right, LAMBDA r :
                     \A k \in 1..Len(left_on) : left[i][left_on[k]] = r[right_on[k]])
        IN  [j \in 1..Len(m) |-> left[i] @@ m[j]]])

\* The key tuple of a row: its values at the grouping columns.
KeyOf(row, by) == [k \in 1..Len(by) |-> row[by[k]]]

\* The keys of S in ascending order.
SortKeys(S) ==
    [p \in 1..Cardinality(S) |->
        CHOOSE k \in S : Cardinality({y \in S : KeyLess(y, k)}) = p - 1] \o <<>>

\* (the distinct keys in the order of their first row, as groupby(sort=False)
\* would give them)
GroupKeysUnsorted(df, by) ==
    LET first == {i \in 1..Len(df) : \A j \in 1..(i - 1) : KeyOf(df[j], by) # KeyOf(df[i], by)}
    IN  [p \in 1..Cardinality(first) |->
            KeyOf(df[CHOOSE i \in first : Cardinality({j \in first : j < i}) = p - 1], by)]

\* The group keys of df.groupby(by): sort=True, the keys in ascending order.
GroupKeys(df, by) == SortKeys({KeyOf(df[i], by) : i \in 1..Len(df)})

\* df.groupby(by, as_index=False).size(): one row per distinct key tuple,
\* with the number of rows of the group in 'size'.
GroupBySize(df, by) ==
    LET keys == GroupKeys(df, by)
    IN  [g \in 1..Len(keys) |->
            [key |-> keys[g],
             size |-> Cardinality({i \in 1..Len(df) : KeyOf(df[i], by) = keys[g]})]]
        \o <<>>

\* The order of sort_values(by=['size', <first group column>],
\* ascending=[size_ascending, True]): a strictly before b.
Before(a, b, size_ascending) ==
    \/ (IF size_ascending THEN a.size < b.size ELSE a.size > b.size)
    \/ (a.size = b.size /\ StrLess(a.key[1], b.key[1]))

\* sort_values on several columns: a stable sort, rows that are equal on the
\* sort columns keep the order they had.
SortValues(df, size_ascending) ==
    LET place == [i \in 1..Len(df) |->
            1 + Cardinality({j \in 1..Len(df) :
                    \/ Before(df[j], df[i], size_ascending)
                    \/ (j < i /\ ~Before(df[i], df[j], size_ascending))})] \o <<>>
    IN  Placed(df, place)

(***************************************************************************)
(* The five questions.  A question returns [error, df]: the frame it       *)
(* returns, or the exception that ends it.                                 *)
(***************************************************************************)
Q1Limit == 20
Q2Limit == 30
Q3Limit == 10
Q4Limit == 15
Q5Limit == 10

Returned(df) == [error |-> "none", df |-> df]
Raised(e) == [error |-> e, df |-> <<>>]

\* pd.DataFrame(data[name]) of an empty list has no columns at all, and
\* selecting columns from it raises KeyError.
HasColumns(df) == Len(df) > 0

\* format_table: 'size' renamed to 'statistic', the columns subject and
\* statistic kept in that order.
format_table(df) ==
    [i \in 1..Len(df) |->
        [subject |-> df[i].subject,
         statistic |-> IF "size" \in DOMAIN df[i] THEN df[i].size
                       ELSE df[i].statistic]]

Paren(name, code) == Strip(name) \o <<32, 40>> \o Strip(code) \o <<41>>

\* The groups of q1 with their sizes, before sorting and head(20).
q1_groups(airlines, airports, routes) ==
    LET merged_df == Merge(airlines, routes, <<"airline_id">>, <<"route_airline_id">>)
        merged_all == Merge(merged_df, airports, <<"route_to_airport_id">>, <<"airport_id">>)
        canada_df == SelectSeq(merged_all, LAMBDA r : r.airport_country = Canada)
    IN  GroupBySize(canada_df, <<"airline_name", "airline_icao_unique_code">>)

q1(airlines, airports, routes) ==
    IF ~(HasColumns(airlines) /\ HasColumns(airports) /\ HasColumns(routes))
    THEN Raised("KeyError")
    ELSE
    LET df == Head_n(SortValues(q1_groups(airlines, airports, routes), FALSE), Q1Limit)
    IN  Returned(format_table([i \in 1..Len(df) |->
            [subject |-> Paren(df[i].key[1], df[i].key[2]), size |-> df[i].size]]))

\* The groups of q2: the stripped country of every route's destination.
q2_groups(airports, routes) ==
    LET merged_df == Merge(airports, routes, <<"airport_id">>, <<"route_to_airport_id">>)
        subjects == [i \in 1..Len(merged_df) |->
                        [subject |-> Strip(merged_df[i].airport_country)]] \o <<>>
    IN  GroupBySize(subjects, <<"subject">>)

q2(airlines, airports, routes) ==
    IF ~(HasColumns(airports) /\ HasColumns(routes))
    THEN Raised("KeyError")
    ELSE
    LET df == Head_n(SortValues(q2_groups(airports, routes), TRUE), Q2Limit)
    IN  Returned(format_table([i \in 1..Len(df) |->
            [subject |-> df[i].key[1], size |-> df[i].size]]))

\* (the same with how='left': an airport no route flies to keeps one row)
q3_groups_left(airports, routes) ==
    LET merged_df == Flatten([i \in 1..Len(airports) |->
            LET m == SelectSeq(routes, LAMBDA r :
                         airports[i].airport_id = r.route_to_airport_id)
            IN  IF Len(m) = 0 THEN <<airports[i]>>
                ELSE [j \in 1..Len(m) |-> airports[i] @@ m[j]]])
    IN  GroupBySize(merged_df, <<"airport_name", "airport_city", "airport_country",
                                 "airport_icao_unique_code">>)

q3_groups(airports, routes) ==
    LET merged_df == Merge(airports, routes, <<"airport_id">>, <<"route_to_airport_id">>)
    IN  GroupBySize(merged_df, <<"airport_name", "airport_city", "airport_country",
                                 "airport_icao_unique_code">>)

q3(airlines, airports, routes) ==
    IF ~(HasColumns(airports) /\ HasColumns(routes))
    THEN Raised("KeyError")
    ELSE
    LET grouped_df == Head_n(SortValues(q3_groups(airports, routes), FALSE), Q3Limit)
    IN  Returned(format_table([i \in 1..Len(grouped_df) |->
            [subject |-> Paren(grouped_df[i].key[1], grouped_df[i].key[4])
                         \o <<44, 32>> \o Strip(grouped_df[i].key[2])
                         \o <<44, 32>> \o Strip(grouped_df[i].key[3]),
             size |-> grouped_df[i].size]]))

q4_groups(airports, routes) ==
    LET merged == Merge(airports, routes, <<"airport_id">>, <<"route_to_airport_id">>)
    IN  GroupBySize(merged, <<"airport_city", "airport_country">>)

q4(airlines, airports, routes) ==
    IF ~(HasColumns(airports) /\ HasColumns(routes))
    THEN Raised("KeyError")
    ELSE
    LET df == Head_n(SortValues(q4_groups(airports, routes), FALSE), Q4Limit)
    IN  Returned(format_table([i \in 1..Len(df) |->
            [subject |-> Strip(df[i].key[1]) \o <<44, 32>> \o Strip(df[i].key[2]),
             size |-> df[i].size]]))

\* An altitude as the loader delivers it: a number, a text that is no
\* number, or None.  A float is [nan, v].
Num(v) == [kind |-> "num", v |-> v]
Text == [kind |-> "text", v |-> 0]
None == [kind |-> "none", v |-> 0]
NaN == [nan |-> TRUE, v |-> 0]

\* Series.astype(float) on one value: None becomes NaN; only a text that is
\* no number raises ValueError (see CanFloat).
AsFloat(a) == IF a.kind = "num" THEN [nan |-> FALSE, v |-> a.v] ELSE NaN
CanFloat(a) == a.kind # "text"

Abs(x) == IF x < 0 THEN -x ELSE x

\* abs(to - from) on floats: NaN if either is NaN.
AbsDiff(t, f) == IF t.nan \/ f.nan THEN NaN ELSE [nan |-> FALSE, v |-> Abs(t.v - f.v)]

\* sort_values(by="statistic", ascending=False): a strictly before b; NaN last.
Before5(a, b) ==
    /\ ~a.statistic.nan
    /\ (b.statistic.nan \/ a.statistic.v > b.statistic.v)

\* The rows by descending statistic, rows of equal statistic in the order of df.
SortStatistic(df) ==
    LET place == [i \in 1..Len(df) |->
            1 + Cardinality({j \in 1..Len(df) :
                    \/ Before5(df[j], df[i])
                    \/ (j < i /\ ~Before5(df[i], df[j]))})] \o <<>>
    IN  Placed(df, place)

\* sort_values on the single column uses the default quicksort, which is not
\* stable: rows with equal statistic come out in the order of the frame or
\* not.  The two extreme outcomes are modelled: ties kept, ties reversed.
TieOrders == {"kept", "reversed"}

SortValues5(df, ties) ==
    IF ties = "kept" THEN SortStatistic(df) ELSE SortStatistic(Reverse(df))

\* The frame of q5 before the float conversion: the routes whose destination
\* is a Canadian airport merged with the routes whose origin is one.
merged_routes(airports, routes) ==
    LET canadian == SelectSeq(airports, LAMBDA a : a.airport_country = Canada)
        to_m == Merge(routes, canadian, <<"route_to_airport_id">>, <<"airport_id">>)
        from_m == Merge(routes, canadian, <<"route_from_aiport_id">>, <<"airport_id">>)
        routes_to_canada_df == [i \in 1..Len(to_m) |->
            [route_from_airport_id_1 |-> to_m[i].route_from_aiport_id,
             route_to_airport_id_1 |-> to_m[i].route_to_airport_id,
             airport_icao_unique_code_1 |-> to_m[i].airport_icao_unique_code,
             to_airport_altitude |-> to_m[i].airport_altitude]] \o <<>>
        routes_from_canada_df == [i \in 1..Len(from_m) |->
            [route_from_airport_id_2 |-> from_m[i].route_from_aiport_id,
             route_to_airport_id_2 |-> from_m[i].route_to_airport_id,
             airport_icao_unique_code_2 |-> from_m[i].airport_icao_unique_code,
             from_airport_altitude |-> from_m[i].airport_altitude]] \o <<>>
    IN  Merge(routes_to_canada_df, routes_from_canada_df,
              <<"route_from_airport_id_1", "route_to_airport_id_1">>,
              <<"route_from_airport_id_2", "route_to_airport_id_2">>)

\* (the subject with the destination's code first)
Subject5ToFirst(row) ==
    row.airport_icao_unique_code_1 \o <<45>> \o row.airport_icao_unique_code_2

\* The subject of a row of q5: code_2 (the origin's), '-', code_1 (the
\* destination's); the codes are not stripped.
Subject5(row) ==
    row.airport_icao_unique_code_2 \o <<45>> \o row.airport_icao_unique_code_1

q5(airlines, airports, routes, ties) ==
    IF ~(HasColumns(airports) /\ HasColumns(routes))
    THEN Raised("KeyError")
    ELSE
    LET merged_routes_df == merged_routes(airports, routes)
    IN  IF \E i \in 1..Len(merged_routes_df) :
               \/ ~CanFloat(merged_routes_df[i].to_airport_altitude)
               \/ ~CanFloat(merged_routes_df[i].from_airport_altitude)
        THEN Raised("ValueError")
        ELSE
        LET with_statistic == [i \in 1..Len(merged_routes_df) |->
                merged_routes_df[i] @@
                [statistic |-> AbsDiff(AsFloat(merged_routes_df[i].to_airport_altitude),
                                       AsFloat(merged_routes_df[i].from_airport_altitude))]]
                \o <<>>
            top == Head_n(SortValues5(with_statistic, ties), Q5Limit)
        IN  Returned(format_table([i \in 1..Len(top) |->
                [subject |-> Subject5(top[i]), statistic |-> top[i].statistic]]))

(***************************************************************************)
(* The input files.  Rows carry the column names of the YAML files.        *)
(***************************************************************************)
Airline(id, name, code) ==
    [airline_id |-> id, airline_name |-> name, airline_icao_unique_code |-> code]

Airport(id, name, city, country, code, altitude) ==
    [airport_id |-> id, airport_name |-> name, airport_city |-> city,
     airport_country |-> country, airport_icao_unique_code |-> code,
     airport_altitude |-> altitude]

Route(airline, from, to) ==
    [route_airline_id |-> airline, route_from_aiport_id |-> from,
     route_to_airport_id |-> to]

Chile == <<67, 104, 105, 108, 101>>

\* Three airlines: "A" (X), " B" (Y) with a leading blank, and a second "A"
\* with the code Y.
BaseAirlines ==
    << Airline(1, <<65>>, <<88>>),
       Airline(2, <<32, 66>>, <<89>>),
       Airline(3, <<65>>, <<89>>) >>

\* Six airports: M/T/Canada/CA at 100; N/T/Canada/" CB" at 350; M/T/Chile/CC
\* at 20; N/U/Canada/CD with a text altitude; " M"/U/"Canada "/CE at 5;
\* O/U/Canada/CF without altitude.
BaseAirports ==
    << Airport(1, <<77>>, <<84>>, Canada, <<67, 65>>, Num(100)),
       Airport(2, <<78>>, <<84>>, Canada, <<32, 67, 66>>, Num(350)),
       Airport(3, <<77>>, <<84>>, Chile, <<67, 67>>, Num(20)),
       Airport(4, <<78>>, <<85>>, Canada, <<67, 68>>, Text),
       Airport(5, <<32, 77>>, <<85>>, Canada \o <<32>>, <<67, 69>>, Num(5)),
       Airport(6, <<79>>, <<85>>, Canada, <<67, 70>>, None) >>

\* The route rows the routes file is drawn from; the ids 7 and 8 match no
\* airline and no airport.
RoutePool ==
    << Route(1, 1, 2), Route(3, 1, 2), Route(2, 2, 1), Route(2, 1, 3),
       Route(1, 3, 1), Route(1, 1, 4), Route(1, 2, 6), Route(7, 1, 2),
       Route(1, 1, 8), Route(1, 8, 1), Route(1, 1, 5) >>

\* The longest routes file drawn freely from RoutePool.
MaxRoutes == 2

\* The number of route rows put before a block of generated rows.
TieRoutes == 2

SeqsUpTo(S, n) == UNION {[1..k -> S] : k \in 0..n}

\* A block of n generated airlines, airports and routes: airline 100+j flies
\* twice to airport 100+j, once from the next generated airport and once
\* from airport 1.  The airports are all in Canada, or each in a country of
\* its own.
BulkAirlines(n) == [j \in 1..n |-> Airline(100 + j, <<81, 64 + j>>, <<90, 64 + j>>)]

BulkAirports(n, canadian) ==
    [j \in 1..n |-> Airport(100 + j, <<80, 64 + j>>, <<86, 64 + j>>,
                             IF canadian THEN Canada ELSE <<75, 64 + j>>,
                             <<67, 64 + j>>, Num(10 * j))]

BulkRoutes(n) ==
    Flatten([j \in 1..n |->
        << Route(100 + j, 100 + (j % n) + 1, 100 + j), Route(100 + j, 1, 100 + j) >>])

\* The sizes of the generated block: one less than q3's, q4's and q1's limit
\* (Canadian airports), and q2's limit (one country each).
BulkConfigs ==
    { <<Q3Limit - 1, TRUE>>, <<Q4Limit - 1, TRUE>>, <<Q1Limit - 1, TRUE>>,
      <<Q2Limit, FALSE>> }

FileNames == {"airlines", "airports", "routes"}

Files(airlines, airports, routes, reversed, present) ==
    [airlines |-> IF reversed THEN Reverse(airlines) ELSE airlines,
     airports |-> IF reversed THEN Reverse(airports) ELSE airports,
     routes |-> IF reversed THEN Reverse(routes) ELSE routes,
     present |-> present]

PoolRows(n) == {RoutePool[i] : i \in 1..n}

\* Every routes file of at most MaxRoutes rows of the pool, over the base
\* airlines and airports, the three tables in file order or reversed.
SmallInputs ==
    { Files(BaseAirlines, BaseAirports, r, rev, FileNames) :
        r \in SeqsUpTo(PoolRows(Len(RoutePool)), MaxRoutes), rev \in BOOLEAN }

\* TieRoutes rows among the first four of the pool, with a generated block.
BulkInputs ==
    { Files(BaseAirlines \o BulkAirlines(c[2][1]),
            BaseAirports \o BulkAirports(c[2][1], c[2][2]),
            c[1] \o BulkRoutes(c[2][1]), rev, FileNames) :
        c \in [1..TieRoutes -> PoolRows(4)] \X BulkConfigs, rev \in BOOLEAN }

\* An empty airlines or airports file; a file that does not exist.
EdgeInputs ==
    { Files(<<>>, BaseAirports, <<r>>, FALSE, FileNames) : r \in PoolRows(3) }
    \cup { Files(BaseAirlines, <<>>, <<r>>, FALSE, FileNames) : r \in PoolRows(3) }
    \cup { Files(BaseAirlines, BaseAirports, <<RoutePool[1]>>, FALSE, FileNames \ {f}) :
              f \in FileNames }

Inputs == SmallInputs \cup BulkInputs \cup EdgeInputs

\* The inputs every question id and graph type is run on.
CoreInputs ==
    EdgeInputs \cup
    { Files(BaseAirlines, BaseAirports, r, FALSE, FileNames) :
        r \in SeqsUpTo(PoolRows(Len(RoutePool)), 1) }

(***************************************************************************)
(* The program                                                             *)
(***************************************************************************)
GRAPH_LABELS_TITLES ==
    [q \in {"q1", "q2", "q3", "q4", "q5"} |->
        CASE q = "q1" -> [x_label |-> "Country", y_label |-> "Number of Routes",
                          title |-> "Top 20 Airlines to Canada"]
          [] q = "q2" -> [x_label |-> "Country", y_label |-> "Number of Routes",
                          title |-> "Top 30 Least Popular Countries to Travel to"]
          [] q = "q3" -> [x_label |-> "Airports", y_label |-> "Number of Flights",
                          title |-> "Top 10 Destination Airports"]
          [] q = "q4" -> [x_label |-> "City", y_label |-> "Number of Flights",
                          title |-> "Top 15 Destination Cities"]
          [] q = "q5" -> [x_label |-> "From Airline Code - To Airline Code",
                          y_label |-> "Number of Flights",
                          title |-> "Top 10 Domestic Canadian Routes"]]

\* The keys of get_func's func_map.
func_map == {"q1", "q2", "q3", "q4", "q5"}

\* The --QUESTION and --GRAPH_TYPE values the program is run with.
Questions == func_map \cup {"q6"}
GraphTypes == {"bar", "pie"}

\* The runs of the program: every question with a bar chart on every input,
\* every question id and graph type on the core inputs.
Runs ==
    (func_map \X {"bar"} \X Inputs) \cup (Questions \X GraphTypes \X CoreInputs)

\* The state main() is in once get_args has returned: nothing loaded,
\* nothing written, no exit status yet.
Init ==
    /\ \E run \in Runs :
          /\ question_id = run[1]
          /\ type_graph = run[2]
          /\ disk = run[3]
    /\ loaded = {}
    /\ airlines_df = <<>>
    /\ airports_df = <<>>
    /\ routes_df = <<>>
    /\ pc = "load_airlines"
    /\ result_df = <<>>
    /\ csv = <<>>
    /\ chart = <<>>
    /\ exit_status = <<>>

\* sys.exit(1), or an exception nobody catches: the process ends with
\* status 1 and whatever it had written before.
Die ==
    /\ pc' = "done"
    /\ exit_status' = <<1>>

\* get_DataFrame(data_dir + airlines_input_filename)
LoadAirlines ==
    /\ pc = "load_airlines"
    /\ IF "airlines" \in disk.present
       THEN /\ airlines_df' = disk.airlines
            /\ loaded' = loaded \cup {"airlines"}
            /\ pc' = "load_airports"
            /\ UNCHANGED exit_status
       ELSE Die /\ UNCHANGED <<airlines_df, loaded>>
    /\ UNCHANGED <<question_id, type_graph, disk, airports_df, routes_df,
                   result_df, csv, chart>>

LoadAirports ==
    /\ pc = "load_airports"
    /\ IF "airports" \in disk.present
       THEN /\ airports_df' = disk.airports
            /\ loaded' = loaded \cup {"airports"}
            /\ pc' = "load_routes"
            /\ UNCHANGED exit_status
       ELSE Die /\ UNCHANGED <<airports_df, loaded>>
    /\ UNCHANGED <<question_id, type_graph, disk, airlines_df, routes_df,
                   result_df, csv, chart>>

LoadRoutes ==
    /\ pc = "load_routes"
    /\ IF "routes" \in disk.present
       THEN /\ routes_df' = disk.routes
            /\ loaded' = loaded \cup {"routes"}
            /\ pc' = "get_func"
            /\ UNCHANGED exit_status
       ELSE Die /\ UNCHANGED <<routes_df, loaded>>
    /\ UNCHANGED <<question_id, type_graph, disk, airlines_df, airports_df,
                   result_df, csv, chart>>

\* get_func(question_id): the function of the question, or sys.exit(1).
GetFunc ==
    /\ pc = "get_func"
    /\ IF question_id \in func_map
       THEN pc' = "call" /\ UNCHANGED exit_status
       ELSE Die
    /\ UNCHANGED <<question_id, type_graph, disk, loaded, airlines_df,
                   airports_df, routes_df, result_df, csv, chart>>

\* result_df = func(airlines_df, airports_df, routes_df)
Call(r) ==
    /\ IF r.error = "none"
       THEN /\ result_df' = r.df
            /\ pc' = "output"
            /\ UNCHANGED exit_status
       ELSE Die /\ UNCHANGED result_df
    /\ UNCHANGED <<question_id, type_graph, disk, loaded, airlines_df,
                   airports_df, routes_df, csv, chart>>

CallQ1 ==
    /\ pc = "call" /\ question_id = "q1"
    /\ Call(q1(airlines_df, airports_df, routes_df))

CallQ2 ==
    /\ pc = "call" /\ question_id = "q2"
    /\ Call(q2(airlines_df, airports_df, routes_df))

CallQ3 ==
    /\ pc = "call" /\ question_id = "q3"
    /\ Call(q3(airlines_df, airports_df, routes_df))

CallQ4 ==
    /\ pc = "call" /\ question_id = "q4"
    /\ Call(q4(airlines_df, airports_df, routes_df))

CallQ5 ==
    /\ pc = "call" /\ question_id = "q5"
    /\ \E ties \in TieOrders : Call(q5(airlines_df, airports_df, routes_df, ties))

\* The bar chart output_files draws.
BarChart(question, df) ==
    LET labels_titles == GRAPH_LABELS_TITLES[question]
    IN  [kind |-> "bar", data |-> df, title |-> labels_titles.title,
         xlabel |-> labels_titles.x_label, ylabel |-> labels_titles.x_label]

PieChart(question, df) ==
    LET labels_titles == GRAPH_LABELS_TITLES[question]
    IN  [kind |-> "pie", data |-> df, title |-> labels_titles.title,
         xlabel |-> "", ylabel |-> labels_titles.y_label]

\* output_files(question_id, type_graph, result_df): the CSV file, then the
\* chart of the graph type.
OutputFiles ==
    /\ pc = "output"
    /\ csv' = <<result_df>>
    /\ chart' = CASE type_graph = "bar" -> <<BarChart(question_id, result_df)>>
                  [] type_graph = "pie" -> <<PieChart(question_id, result_df)>>
                  [] OTHER -> chart
    /\ pc' = "exit"
    /\ UNCHANGED <<question_id, type_graph, disk, loaded, airlines_df,
                   airports_df, routes_df, result_df, exit_status>>

\* sys.exit(0)
Exit ==
    /\ pc = "exit"
    /\ pc' = "done"
    /\ exit_status' = <<0>>
    /\ UNCHANGED <<question_id, type_graph, disk, loaded, airlines_df,
                   airports_df, routes_df, result_df, csv, chart>>

Next ==
    \/ LoadAirlines
    \/ LoadAirports
    \/ LoadRoutes
    \/ GetFunc
    \/ CallQ1
    \/ CallQ2
    \/ CallQ3
    \/ CallQ4
    \/ CallQ5
    \/ OutputFiles
    \/ Exit

Spec == Init /\ [][Next]_vars

(***************************************************************************)
(* Properties                                                              *)
(***************************************************************************)
Range(s) == {s[i] : i \in 1..Len(s)}

\* The question's function has returned its frame to main().
Answered(q) == question_id = q /\ pc = "output"

\* main() has called the question's function, which returned or raised.
Called(q) ==
    /\ question_id = q
    /\ loaded = FileNames
    /\ pc \in {"output", "exit", "done"}

\* The routes (by position) whose destination is an airport that satisfies P,
\* and the airports of an id.
AirportsOf(id) == {p \in Range(airports_df) : p.airport_id = id}
AirlinesOf(id) == {a \in Range(airlines_df) : a.airline_id = id}
CanadianOf(id) == {p \in AirportsOf(id) : p.airport_country = Canada}

\* The routes that fly from a Canadian airport to a Canadian airport.
Domestic ==
    {i \in 1..Len(routes_df) :
        /\ CanadianOf(routes_df[i].route_from_aiport_id) # {}
        /\ CanadianOf(routes_df[i].route_to_airport_id) # {}}

\* The tables in one fixed order of their rows.
RowRank(row) ==
    IF "airline_id" \in DOMAIN row THEN row.airline_id
    ELSE IF "airport_id" \in DOMAIN row THEN row.airport_id
    ELSE row.route_airline_id * 1000000 + row.route_from_aiport_id * 1000
         + row.route_to_airport_id

Canonical(df) ==
    LET place == [i \in 1..Len(df) |->
            1 + Cardinality({j \in 1..Len(df) :
                    \/ RowRank(df[j]) < RowRank(df[i])
                    \/ (j < i /\ RowRank(df[j]) = RowRank(df[i]))})] \o <<>>
    IN  Placed(df, place)

\* C1: a question id outside q1..q5 is rejected before any table is loaded,
\* the process ends with a non-zero status and no CSV or chart is written.
C1_UnknownIdRejectedBeforeLoad ==
    question_id \notin func_map =>
        /\ loaded = {}
        /\ csv = <<>> /\ chart = <<>>
        /\ (pc = "done" => exit_status = <<1>>)

\* C2 as claimed: every row of q5's result has the subject of a domestic
\* connection with the destination's code first: to_code, '-', from_code.
C2_SubjectToCodeFirst ==
    Answered("q5") =>
        \A k \in 1..Len(result_df) :
            \E i \in Domestic :
                \E a \in CanadianOf(routes_df[i].route_from_aiport_id),
                   b \in CanadianOf(routes_df[i].route_to_airport_id) :
                    result_df[k].subject = b.airport_icao_unique_code \o <<45>>
                                           \o a.airport_icao_unique_code

\* C2 amended: every row of q5's result is a domestic connection's origin
\* code, '-', destination code, with the absolute altitude difference of the
\* two airports; and when fewer than 10 rows are returned every domestic
\* connection has its row.
C2_SubjectFromCodeFirst ==
    Answered("q5") =>
        /\ \A k \in 1..Len(result_df) :
              \E i \in Domestic :
                \E a \in CanadianOf(routes_df[i].route_from_aiport_id),
                   b \in CanadianOf(routes_df[i].route_to_airport_id) :
                    /\ result_df[k].subject = a.airport_icao_unique_code \o <<45>>
                                              \o b.airport_icao_unique_code
                    /\ result_df[k].statistic =
                           AbsDiff(AsFloat(b.airport_altitude), AsFloat(a.airport_altitude))
        /\ Len(result_df) < Q5Limit =>
              \A i \in Domestic :
                \A a \in CanadianOf(routes_df[i].route_from_aiport_id),
                   b \in CanadianOf(routes_df[i].route_to_airport_id) :
                    \E k \in 1..Len(result_df) :
                        result_df[k].subject = a.airport_icao_unique_code \o <<45>>
                                               \o b.airport_icao_unique_code

\* q5 has answered with a row whose subject is the origin-first label of a
\* connection between two airports of different codes, and no connection has
\* that label destination-first.
C2_Witness ==
    /\ Answered("q5")
    /\ \E k \in 1..Len(result_df) :
          /\ \E i \in Domestic :
                \E a \in CanadianOf(routes_df[i].route_from_aiport_id),
                   b \in CanadianOf(routes_df[i].route_to_airport_id) :
                    /\ a.airport_icao_unique_code # b.airport_icao_unique_code
                    /\ result_df[k].subject = a.airport_icao_unique_code \o <<45>>
                                              \o b.airport_icao_unique_code
          /\ ~ \E i \in Domestic :
                \E a \in CanadianOf(routes_df[i].route_from_aiport_id),
                   b \in CanadianOf(routes_df[i].route_to_airport_id) :
                    result_df[k].subject = b.airport_icao_unique_code \o <<45>>
                                           \o a.airport_icao_unique_code

\* The routes whose airline has the name and code and whose destination is a
\* Canadian airport.
RoutesOfAirlineToCanada(name, code) ==
    {i \in 1..Len(routes_df) :
        /\ \E c \in AirlinesOf(routes_df[i].route_airline_id) :
              c.airline_name = name /\ c.airline_icao_unique_code = code
        /\ CanadianOf(routes_df[i].route_to_airport_id) # {}}

\* The routes whose destination is an airport with the same values as p at
\* the columns.
RoutesTo(p, columns) ==
    {i \in 1..Len(routes_df) :
        \E d \in AirportsOf(routes_df[i].route_to_airport_id) :
            \A c \in columns : d[c] = p[c]}

RoutesToCountry(country) ==
    {i \in 1..Len(routes_df) :
        \E d \in AirportsOf(routes_df[i].route_to_airport_id) :
            Strip(d.airport_country) = country}

\* C3: the joins are inner equi-joins.  Every row of q1..q4's result is a
\* group of matched rows whose statistic is the number of routes that match
\* the group through existing keys (a route whose destination or, in q1,
\* airline matches no row counts nowhere), and every row of q5's result is
\* a route whose origin and destination both match a Canadian airport.
C3_InnerJoins ==
    /\ Answered("q1") =>
          \A k \in 1..Len(result_df) :
              \E a \in Range(airlines_df) :
                  /\ result_df[k].subject = Paren(a.airline_name, a.airline_icao_unique_code)
                  /\ result_df[k].statistic = Cardinality(
                         RoutesOfAirlineToCanada(a.airline_name, a.airline_icao_unique_code))
                  /\ result_df[k].statistic > 0
    /\ Answered("q2") =>
          \A k \in 1..Len(result_df) :
              /\ result_df[k].statistic = Cardinality(RoutesToCountry(result_df[k].subject))
              /\ result_df[k].statistic > 0
    /\ Answered("q3") =>
          \A k \in 1..Len(result_df) :
              \E p \in Range(airports_df) :
                  /\ result_df[k].subject =
                         Paren(p.airport_name, p.airport_icao_unique_code)
                         \o <<44, 32>> \o Strip(p.airport_city)
                         \o <<44, 32>> \o Strip(p.airport_country)
                  /\ result_df[k].statistic = Cardinality(RoutesTo(p,
                         {"airport_name", "airport_city", "airport_country",
                          "airport_icao_unique_code"}))
                  /\ result_df[k].statistic > 0
    /\ Answered("q4") =>
          \A k \in 1..Len(result_df) :
              \E p \in Range(airports_df) :
                  /\ result_df[k].subject = Strip(p.airport_city) \o <<44, 32>>
                                            \o Strip(p.airport_country)
                  /\ result_df[k].statistic = Cardinality(RoutesTo(p,
                         {"airport_city", "airport_country"}))
                  /\ result_df[k].statistic > 0
    /\ Answered("q5") =>
          /\ Domestic = {} => result_df = <<>>
          /\ \A k \in 1..Len(result_df) :
                \E i \in Domestic :
                  \E a \in CanadianOf(routes_df[i].route_from_aiport_id),
                     b \in CanadianOf(routes_df[i].route_to_airport_id) :
                      result_df[k].subject = Subject5(
                          [airport_icao_unique_code_1 |-> b.airport_icao_unique_code,
                           airport_icao_unique_code_2 |-> a.airport_icao_unique_code])

\* A question of q1..q4 has answered with a row, from a routes file that
\* holds a route whose destination or airline matches no row.
C3_Witness ==
    /\ pc = "output" /\ question_id \in {"q1", "q2", "q3", "q4"}
    /\ Len(result_df) > 0
    /\ \E i \in 1..Len(routes_df) :
          \/ AirportsOf(routes_df[i].route_to_airport_id) = {}
          \/ AirlinesOf(routes_df[i].route_airline_id) = {}

\* The group keys of q1..q4 that survive the join and the filter.
Groups1 ==
    {<<a.airline_name, a.airline_icao_unique_code>> : a \in
        {a \in Range(airlines_df) :
            RoutesOfAirlineToCanada(a.airline_name, a.airline_icao_unique_code) # {}}}

Groups2 ==
    {Strip(routed.airport_country) : routed \in
        {p \in Range(airports_df) : RoutesTo(p, {"airport_id"}) # {}}}

Groups3 ==
    {<<routed.airport_name, routed.airport_city, routed.airport_country,
       routed.airport_icao_unique_code>> : routed \in
        {p \in Range(airports_df) : RoutesTo(p, {"airport_id"}) # {}}}

Groups4 ==
    {<<routed.airport_city, routed.airport_country>> : routed \in
        {p \in Range(airports_df) : RoutesTo(p, {"airport_id"}) # {}}}

RowCount(q) ==
    CASE q = "q1" -> Min(Q1Limit, Cardinality(Groups1))
      [] q = "q2" -> Min(Q2Limit, Cardinality(Groups2))
      [] q = "q3" -> Min(Q3Limit, Cardinality(Groups3))
      [] q = "q4" -> Min(Q4Limit, Cardinality(Groups4))

\* C4: for every input the question returns a result; q1..q4 return exactly
\* min(limit, number of surviving groups) rows (none when no row survives)
\* and q5 at most 10.
C4_RowCounts ==
    /\ \A q \in {"q1", "q2", "q3", "q4"} :
          Called(q) => /\ exit_status # <<1>>
                       /\ Len(result_df) = RowCount(q)
    /\ Answered("q5") => Len(result_df) <= Q5Limit

\* The part of C4 the program keeps: a frame that is returned has these
\* numbers of rows.
C4_RowCountsWhenReturned ==
    /\ \A q \in {"q1", "q2", "q3", "q4"} :
          Answered(q) => Len(result_df) = RowCount(q)
    /\ Answered("q5") => Len(result_df) <= Q5Limit

\* The airline name a subject of q1 shows: the text before its last " (".
NameShown(subject) ==
    LET at == {i \in 1..(Len(subject) - 1) : subject[i] = 32 /\ subject[i + 1] = 40}
    IN  IF at = {} THEN subject
        ELSE SubSeq(subject, 1, (CHOOSE i \in at : \A j \in at : i >= j) - 1)

\* C5: adjacent rows (a, b) of q1's result have a.statistic > b.statistic, or
\* the same statistic and a's airline name, as the subject shows it, not
\* after b's.
C5_SortedOnShownName ==
    Answered("q1") =>
        \A k \in 1..(Len(result_df) - 1) :
            \/ result_df[k].statistic > result_df[k + 1].statistic
            \/ /\ result_df[k].statistic = result_df[k + 1].statistic
               /\ ~StrLess(NameShown(result_df[k + 1].subject),
                           NameShown(result_df[k].subject))

\* C6: q1, q3 and q4 return the same Result Table for the tables in any
\* order of their rows: the table returned is the one returned for the
\* three tables put into one fixed row order.
C6_RowOrderIrrelevant ==
    /\ Answered("q1") =>
          result_df = q1(Canonical(airlines_df), Canonical(airports_df),
                         Canonical(routes_df)).df
    /\ Answered("q3") =>
          result_df = q3(Canonical(airlines_df), Canonical(airports_df),
                         Canonical(routes_df)).df
    /\ Answered("q4") =>
          result_df = q4(Canonical(airlines_df), Canonical(airports_df),
                         Canonical(routes_df)).df

\* q1 has answered with 20 rows from tables that are not in the fixed order,
\* and the last group kept and the first group cut have the same size and
\* the same airline name.
C6_Witness ==
    /\ Answered("q1")
    /\ Len(result_df) = Q1Limit
    /\ airlines_df # Canonical(airlines_df)
    /\ routes_df # Canonical(routes_df)
    /\ LET g == SortValues(q1_groups(airlines_df, airports_df, routes_df), FALSE)
       IN  /\ Len(g) > Q1Limit
           /\ g[Q1Limit].size = g[Q1Limit + 1].size
           /\ g[Q1Limit].key[1] = g[Q1Limit + 1].key[1]

\* C7: every subject is the concatenation of whitespace-trimmed fields.
C7_SubjectsTrimmed ==
    /\ Answered("q1") =>
          \A k \in 1..Len(result_df) : \E a \in Range(airlines_df) :
              result_df[k].subject =
                  Strip(a.airline_name) \o <<32, 40>>
                  \o Strip(a.airline_icao_unique_code) \o <<41>>
    /\ Answered("q2") =>
          \A k \in 1..Len(result_df) : \E p \in Range(airports_df) :
              result_df[k].subject = Strip(p.airport_country)
    /\ Answered("q3") =>
          \A k \in 1..Len(result_df) : \E p \in Range(airports_df) :
              result_df[k].subject =
                  Strip(p.airport_name) \o <<32, 40>>
                  \o Strip(p.airport_icao_unique_code) \o <<41, 44, 32>>
                  \o Strip(p.airport_city) \o <<44, 32>> \o Strip(p.airport_country)
    /\ Answered("q4") =>
          \A k \in 1..Len(result_df) : \E p \in Range(airports_df) :
              result_df[k].subject =
                  Strip(p.airport_city) \o <<44, 32>> \o Strip(p.airport_country)
    /\ Answered("q5") =>
          \A k \in 1..Len(result_df) : \E a, b \in Range(airports_df) :
              result_df[k].subject =
                  Strip(a.airport_icao_unique_code) \o <<45>>
                  \o Strip(b.airport_icao_unique_code)

\* C8: when an airport that passes q5's Canada filter has an altitude that
\* is no number or is absent, the call of q5 fails: no result, no output
\* file, a non-zero exit status.  (Stated for the airports at an end of a
\* domestic route, whose altitude goes into a statistic.)
C8_BadAltitudeIsFatal ==
    (/\ Called("q5")
     /\ \E i \in Domestic :
           \E p \in CanadianOf(routes_df[i].route_from_aiport_id)
                     \cup CanadianOf(routes_df[i].route_to_airport_id) :
               p.airport_altitude.kind # "num")
    => /\ pc = "done" /\ exit_status = <<1>>
       /\ result_df = <<>> /\ csv = <<>> /\ chart = <<>>

\* C9: the bar chart takes its title, x-axis label and y-axis label from
\* title, x_label and y_label of the question's entry.
C9_BarChartLabels ==
    (chart # <<>> /\ type_graph = "bar") =>
        /\ chart[1].title = GRAPH_LABELS_TITLES[question_id].title
        /\ chart[1].xlabel = GRAPH_LABELS_TITLES[question_id].x_label
        /\ chart[1].ylabel = GRAPH_LABELS_TITLES[question_id].y_label

\* C10: before truncation q5's final join holds exactly one row per route
\* whose origin and destination are both Canadian airports.
C10_OneRowPerDomesticRoute ==
    Answered("q5") =>
        /\ Len(merged_routes(airports_df, routes_df)) = Cardinality(Domestic)
        /\ Len(result_df) = Min(Q5Limit, Cardinality(Domestic))

====
